---- MODULE Spec2Model ----
(***************************************************************************)
(* flake8-define-class-attributes: the assignment resolver                 *)
(* (resolve_attribute, resolve_assign), the tree walker (FDCAVisitor) and  *)
(* the reconciler (ClassAttributeChecker.run).                             *)
(*                                                                         *)
(* The syntax tree is not stored: the walk is a pre-order traversal, so    *)
(* the tree is produced node by node as the visitor meets it.  Entering a  *)
(* definition node, visiting an assignment statement and returning from a  *)
(* definition node are the steps; every balanced sequence of them is the   *)
(* traversal of one tree.  Nodes the visitor passes through without a      *)
(* handler (if, for, with, expression statements) leave no trace.          *)
(***************************************************************************)
EXTENDS Integers, Sequences, FiniteSets, TLC

\* ---------------------------------------------------------------- bounds
\* Most definition frames on the scope stack at once.
MaxDepth == 3
\* Most nodes with a handler (definitions and assignments) in one tree.
MaxNodes == 4
\* Most attribute / subscript steps in one target given to the resolver.
MaxChain == 3
\* Most nodes with a handler in one tree of several classes.
MaxClassNodes == 6

\* ------------------------------------------------------------ identifiers
\* Identifiers used as base names of targets and as class variable names.
\* "a" is at once a class-variable name and a base that is no receiver.
Ids == {"self", "slef", "a"}
Attrs == {"a", "b"}

\* ------------------------------------------------------------- ast nodes
Name(id) == [type |-> "Name", id |-> id]
Attribute(v, a) == [type |-> "Attribute", value |-> v, attr |-> a]
Subscript(v) == [type |-> "Subscript", value |-> v]
Starred(v) == [type |-> "Starred", value |-> v]
Call(f) == [type |-> "Call", func |-> f]
Constant == [type |-> "Constant"]
TupleNode(es) == [type |-> "Tuple", elts |-> es]
ListNode(es) == [type |-> "List", elts |-> es]

\* self.foo()
SelfCall == Call(Attribute(Name("self"), "foo"))

\* Expressions a chain of accesses can start from: a name, a call, or
\* another expression (a literal).
Roots == {Name(i) : i \in Ids} \cup {SelfCall, Constant}

\* Roots followed by at most d attribute / subscript steps.
RECURSIVE Chains(_)
Chains(d) ==
    IF d = 0 THEN Roots
    ELSE LET inner == Chains(d - 1)
         IN  inner \cup {Attribute(v, a) : v \in inner, a \in Attrs}
                   \cup {Subscript(v) : v \in inner}

\* What the grammar allows as a single assignment target.
IsTarget(e) == e.type \in {"Name", "Attribute", "Subscript"}

\* Elements of destructuring and multi-target statements.
PairElts ==
    { Name("self"), Name("a"),
      Attribute(Name("self"), "a"), Attribute(Name("self"), "b"),
      Attribute(Name("slef"), "a"),
      Attribute(SelfCall, "b"),
      Subscript(SelfCall),
      Starred(Attribute(Name("self"), "b")) }
Pairs == {<<x, y>> : x \in PairElts, y \in PairElts}

\* ------------------------------------------------------------ statements
\* An assignment statement on line `line` at column `col`.  The end position
\* is that of a one-line statement.
Loc(line, col) ==
    [lineno |-> line, col_offset |-> col, end_lineno |-> line, end_col_offset |-> col + 1]
Assign(ts, line, col) ==
    [type |-> "Assign", targets |-> ts, loc |-> Loc(line, col)]
AnnAssign(tg, line, col) ==
    [type |-> "AnnAssign", target |-> tg, loc |-> Loc(line, col)]
AugAssign(tg, line, col) ==
    [type |-> "AugAssign", target |-> tg, loc |-> Loc(line, col)]

\* The statements given to the resolver on its own: every chain of at most
\* MaxChain steps as the one target of each statement kind, and every pair of
\* elements as two targets (a = b = v) and as one tuple or list target.
ResolverTargetLists ==
    {<<e>> : e \in {c \in Chains(MaxChain) : IsTarget(c)}}
    \cup {p \in Pairs : p[1].type # "Starred" /\ p[2].type # "Starred"}
    \cup {<<TupleNode(p)>> : p \in Pairs}
    \cup {<<ListNode(p)>> : p \in Pairs}
ResolverNodes ==
    {Assign(ts, 1, 0) : ts \in ResolverTargetLists}
    \cup {AnnAssign(tg, 1, 0) : tg \in {c \in Chains(MaxChain) : IsTarget(c)}}
    \cup {AugAssign(tg, 1, 0) : tg \in {c \in Chains(MaxChain) : IsTarget(c)}}

\* The statements the walker meets: the targets below in each statement kind
\* that takes them.
WalkSingles ==
    { Name("self"), Name("a"),
      Attribute(Name("self"), "a"), Attribute(Name("self"), "b"),
      Attribute(Name("slef"), "a"), Attribute(Name("a"), "a"),
      Subscript(Name("self")), Subscript(Attribute(Name("self"), "a")),
      Attribute(Attribute(Name("self"), "a"), "b"),
      Attribute(Subscript(Name("self")), "b"),
      Attribute(SelfCall, "a"), Subscript(SelfCall),
      Attribute(Subscript(SelfCall), "a"), Subscript(Attribute(SelfCall, "a")),
      Attribute(Constant, "a") }
WalkTargetLists ==
    {<<e>> : e \in WalkSingles}
    \cup { <<Attribute(Name("self"), "a"), Attribute(Name("self"), "b")>>,
           <<Attribute(SelfCall, "a"), Attribute(Name("self"), "b")>>,
           <<Attribute(Name("self"), "b"), Name("a")>>,
           <<TupleNode(<<Attribute(Name("self"), "a"), Attribute(Name("self"), "b")>>)>>,
           <<TupleNode(<<Attribute(SelfCall, "a"), Attribute(Name("self"), "b")>>)>>,
           <<TupleNode(<<Name("a"), Starred(Attribute(Name("self"), "b"))>>)>>,
           <<ListNode(<<Name("self"), Attribute(Name("slef"), "a")>>)>> }
WalkAnnAug ==
    { Name("self"), Name("a"), Attribute(Name("self"), "a"),
      Subscript(Name("self")), Attribute(SelfCall, "a"), Subscript(SelfCall) }
AssignNodes(line, col) ==
    {Assign(ts, line, col) : ts \in WalkTargetLists}
    \cup {AnnAssign(tg, line, col) : tg \in WalkAnnAug}
    \cup {AugAssign(tg, line, col) : tg \in WalkAnnAug}

\* ------------------------------------------------------------ definitions
DecoratorLists ==
    { <<Name("classmethod")>>,
      <<Name("staticmethod")>>,
      <<Name("property")>>,
      <<Name("lru_cache")>>,
      <<Call(Name("lru_cache"))>>,
      <<Attribute(Name("functools"), "lru_cache")>>,
      <<Call(Attribute(Name("functools"), "lru_cache"))>>,
      <<Attribute(Name("builtins"), "classmethod")>>,
      <<Call(Name("staticmethod"))>>,
      <<Name("property"), Name("staticmethod")>>,
      <<Call(Name("lru_cache")), Name("classmethod")>> }

ClassDef(line) ==
    [type |-> "ClassDef", name |-> "Foo", args |-> <<>>, decorator_list |-> <<>>,
     lineno |-> line]
\* `args` is node.args.args, the positional parameters, by name.
FunctionDef(nm, as, ds, line) ==
    [type |-> "FunctionDef", name |-> nm, args |-> as, decorator_list |-> ds,
     lineno |-> line]

\* Function definitions: beans under each parameter list, each method name
\* with the parameter self, and beans(self) and __init__(self) under each
\* decorator list.
MethodNames == {"__init__", "__post_init__", "beans"}
ArgLists == {<<>>, <<"self">>, <<"slef">>}
FuncNodes(line) ==
    {FunctionDef("beans", as, <<>>, line) : as \in ArgLists}
    \cup {FunctionDef(nm, <<"self">>, <<>>, line) : nm \in MethodNames}
    \cup {FunctionDef(nm, <<"self">>, ds, line) :
            nm \in {"__init__", "beans"}, ds \in DecoratorLists}

\* ------------------------------------------------- results and exceptions
Ok(v) == [exc |-> "none", val |-> v]
Raise(e) == [exc |-> e, val |-> {}]

AssignSpec(base, attr) == [base |-> base, attr |-> attr]

\* The local `attr` of resolve_attribute before its first assignment.
Unbound == "<unbound>"

\* ---------------------------------------------------------------- resolver
\* The while loop of resolve_attribute: peel attribute and subscript layers,
\* an attribute layer overwriting `attr`, a subscript layer keeping it.
RECURSIVE spelunk(_, _)

\* Mutant: the first attribute layer met, the outermost, is the one kept.
spelunk_keep_first(node, attr) ==
    IF node.type = "Attribute"
    THEN spelunk(node.value, IF attr = Unbound THEN node.attr ELSE attr)
    ELSE IF node.type = "Subscript" THEN spelunk(node.value, attr)
    ELSE [node |-> node, attr |-> attr]

spelunk(node, attr) ==
    IF node.type = "Attribute" THEN spelunk(node.value, node.attr)
    ELSE IF node.type = "Subscript" THEN spelunk(node.value, attr)
    ELSE [node |-> node, attr |-> attr]

resolve_attribute(base_node) ==
    LET r == spelunk(base_node, Unbound)
    IN  IF r.node.type = "Name"
        THEN IF r.attr = Unbound THEN Raise("UnboundLocalError")
             ELSE Ok({AssignSpec(r.node.id, r.attr)})
        ELSE IF r.node.type = "Call" THEN Raise("ResolvedCallError")
        ELSE Raise("ValueError")

RECURSIVE resolve_assign(_)
RECURSIVE resolve_each(_, _, _)

\* `for n in nodes: assigned.update(resolve_assign(n))`; the first exception
\* leaves the loop and the function.
resolve_each(nodes, i, assigned) ==
    IF i > Len(nodes) THEN Ok(assigned)
    ELSE LET r == resolve_assign(nodes[i])
         IN  IF r.exc # "none" THEN r
             ELSE resolve_each(nodes, i + 1, assigned \cup r.val)

\* Mutant: an augmented assignment is not among the statements matched.
resolve_assign_no_augassign(node) ==
    CASE node.type = "Assign" -> resolve_each(node.targets, 1, {})
      [] node.type = "AnnAssign" -> resolve_assign(node.target)
      [] node.type \in {"Tuple", "List"} -> resolve_each(node.elts, 1, {})
      [] node.type = "Attribute" -> resolve_attribute(node)
      [] node.type = "Name" -> Ok({AssignSpec(node.id, "")})
      [] node.type \in {"Subscript", "Starred"} -> resolve_assign(node.value)
      [] OTHER -> Raise("ValueError")

resolve_assign(node) ==
    CASE node.type = "Assign" -> resolve_each(node.targets, 1, {})
      [] node.type \in {"AnnAssign", "AugAssign"} -> resolve_assign(node.target)
      [] node.type \in {"Tuple", "List"} -> resolve_each(node.elts, 1, {})
      [] node.type = "Attribute" -> resolve_attribute(node)
      [] node.type = "Name" -> Ok({AssignSpec(node.id, "")})
      [] node.type \in {"Subscript", "Starred"} -> resolve_assign(node.value)
      [] OTHER -> Raise("ValueError")

\* ---------------------------------------------------------------- walker
\* Mutant: a decorator counts by its last name, dotted or not.
has_special_decorator_any_name(node) ==
    \E i \in 1..Len(node.decorator_list) :
        LET d == node.decorator_list[i]
        IN  \/ d.type = "Name" /\ d.id \in {"classmethod", "staticmethod"}
            \/ d.type = "Attribute" /\ d.attr \in {"classmethod", "staticmethod"}

has_special_decorator(node) ==
    \E i \in 1..Len(node.decorator_list) :
        LET d == node.decorator_list[i]
        IN  d.type = "Name" /\ d.id \in {"classmethod", "staticmethod"}

\* Mutant: the receiver is taken to be named self.
resolve_instance_name_self(node) ==
    IF Len(node.args) = 0 THEN Raise("IndexError") ELSE Ok("self")

\* Mutant: a method without a positional parameter is given the receiver self.
resolve_instance_name_default_self(node) ==
    IF Len(node.args) = 0 THEN Ok("self") ELSE Ok(node.args[1])

\* node.args.args[0].arg
resolve_instance_name(node) ==
    IF Len(node.args) = 0 THEN Raise("IndexError") ELSE Ok(node.args[1])

SelfAssignNode(attr, node) ==
    [attr |-> attr,
     lineno |-> node.loc.lineno,
     col_offset |-> node.loc.col_offset,
     end_lineno |-> node.loc.end_lineno,
     end_col_offset |-> node.loc.end_col_offset]

\* ------------------------------------------------------------------ state
VARIABLES
    tree,                   \* ClassAttributeChecker.tree: "None" or "Module"
    pc,                     \* position in run(): "start", "visit", "done", "raised";
                            \* "resolve" when the resolver is called on its own
    exc,                    \* the exception that left run(), or "none"
    context,                \* FDCAVisitor._context
    n_contained_classdef,   \* FDCAVisitor._n_contained_classdef
    class_vars,             \* FDCAVisitor.class_vars
    init_vars,              \* FDCAVisitor.init_vars
    method_vars,            \* FDCAVisitor.method_vars
    yielded,                \* what run() has yielded
    next_line,              \* source line of the next node the visitor meets
    class_seen,             \* history: a class definition has been entered
    last                    \* history: the handler that ran last and its node

vars == <<tree, pc, exc, context, n_contained_classdef, class_vars, init_vars,
          method_vars, yielded, next_line, class_seen, last>>

buckets == <<class_vars, init_vars, method_vars>>

\* What the walker reads of a definition node kept on the scope stack.
Frame(node) == [type |-> node.type, name |-> node.name, args |-> node.args]

\* Mutant: every definition node counts as a class definition.
is_classdef_any_def(node) == node.type \in {"ClassDef", "FunctionDef"}

\* isinstance(node, ast.ClassDef)
is_classdef(node) == node.type = "ClassDef"

\* Mutant: __post_init__ is not recognized.
ConstructorNames_init_only == {"__init__"}

\* The method names whose assignments define instance attributes.
ConstructorNames == {"__init__", "__post_init__"}

\* seq[-k] of Python for 0 <= k <= len(seq).
NegIndex(seq, k) == IF k = 0 THEN seq[1] ELSE seq[Len(seq) - k + 1]

RECURSIVE levels_from(_, _)
levels_from(ctx, depth) ==
    IF ctx = <<>> THEN -1
    ELSE IF ctx[Len(ctx)].type = "ClassDef" THEN depth
    ELSE levels_from(SubSeq(ctx, 1, Len(ctx) - 1), depth + 1)

\* Depth of the current context from the most recent ClassDef; -1 stands for
\* the RuntimeError raised when no ClassDef is in the context.
n_function_levels(ctx) == levels_from(ctx, 0)

\* Mutant: the innermost function is taken as the method.
method_level_innermost(ctx) == ctx[Len(ctx)]

\* The frame visit_assign takes as the method of the current statement.
method_level(ctx) == NegIndex(ctx, n_function_levels(ctx))

\* The orders in which iterating a set can deliver its elements.
Orderings(S) ==
    {f \in [1..Cardinality(S) -> S] : \A i, j \in 1..Cardinality(S) : f[i] = f[j] => i = j}

Init ==
    /\ tree \in {"None", "Module"}
    /\ pc = "start"
    /\ exc = "none"
    /\ context = <<>>
    /\ n_contained_classdef = 0
    /\ class_vars = {}
    /\ init_vars = {}
    /\ method_vars = <<>>
    /\ yielded = <<>>
    /\ next_line = 1
    /\ class_seen = FALSE
    /\ last = [op |-> "none"]

\* run(): `if self.tree is not None: visitor.visit(self.tree) else: return`.
run_begin ==
    /\ pc = "start"
    /\ pc' = IF tree = "None" THEN "done" ELSE "visit"
    /\ last' = [op |-> "run_begin"]
    /\ UNCHANGED <<tree, exc, context, n_contained_classdef, class_vars, init_vars,
                   method_vars, yielded, next_line, class_seen>>

\* switch_context up to its call of generic_visit.
switch_context(node) ==
    /\ pc = "visit"
    /\ LET n == IF is_classdef(node) THEN n_contained_classdef + 1
                ELSE n_contained_classdef
       IN  /\ n_contained_classdef' = n
           /\ IF (~is_classdef(node)) /\ n > 0 /\ has_special_decorator(node)
              THEN context' = context
              ELSE /\ Len(context) < MaxDepth
                   /\ context' = Append(context, Frame(node))
    /\ next_line' = next_line + 1
    /\ class_seen' = (class_seen \/ node.type = "ClassDef")
    /\ last' = [op |-> "switch_context", node |-> node]
    /\ UNCHANGED <<tree, pc, exc, class_vars, init_vars, method_vars, yielded>>

\* Mutant: leaving a class definition does not count the counter down.
switch_context_return_keep_count ==
    /\ pc = "visit"
    /\ context # <<>>
    /\ LET popped == context[Len(context)]
       IN  /\ context' = SubSeq(context, 1, Len(context) - 1)
           /\ n_contained_classdef' = n_contained_classdef
           /\ last' = [op |-> "switch_context_return", node |-> popped]
    /\ UNCHANGED <<tree, pc, exc, class_vars, init_vars, method_vars, yielded,
                   next_line, class_seen>>

\* switch_context after generic_visit has returned.
switch_context_return ==
    /\ pc = "visit"
    /\ context # <<>>
    /\ LET popped == context[Len(context)]
       IN  /\ context' = SubSeq(context, 1, Len(context) - 1)
           /\ n_contained_classdef' =
                IF popped.type = "ClassDef" THEN n_contained_classdef - 1
                ELSE n_contained_classdef
           /\ last' = [op |-> "switch_context_return", node |-> popped]
    /\ UNCHANGED <<tree, pc, exc, class_vars, init_vars, method_vars, yielded,
                   next_line, class_seen>>

\* The exception `e` leaves the visitor and run().
Propagate(e) ==
    /\ pc' = "raised"
    /\ exc' = e
    /\ UNCHANGED <<class_vars, init_vars, method_vars>>

\* The body of visit_assign: what the statement `node` does to the buckets,
\* and the exception that leaves it.
store_assign(node) ==
    IF n_contained_classdef = 0
    THEN UNCHANGED <<pc, exc, class_vars, init_vars, method_vars>>
    ELSE LET new_nodes == resolve_assign(node)
         IN  IF new_nodes.exc = "ResolvedCallError"
             THEN UNCHANGED <<pc, exc, class_vars, init_vars, method_vars>>
             ELSE IF new_nodes.exc # "none"
             THEN Propagate(new_nodes.exc)
             ELSE IF context[Len(context)].type = "ClassDef"
             THEN /\ class_vars' = class_vars \cup {s.base : s \in new_nodes.val}
                  /\ UNCHANGED <<pc, exc, init_vars, method_vars>>
             ELSE IF n_function_levels(context) < 0
             THEN Propagate("RuntimeError")
             ELSE LET method == method_level(context)
                      instance_varname == resolve_instance_name(method)
                      self_nodes ==
                          {s \in new_nodes.val : s.base = instance_varname.val}
                  IN  IF instance_varname.exc # "none"
                      THEN Propagate(instance_varname.exc)
                      ELSE IF method.name \in ConstructorNames
                      THEN /\ init_vars' = init_vars \cup {s.attr : s \in self_nodes}
                           /\ UNCHANGED <<pc, exc, class_vars, method_vars>>
                      ELSE /\ \E order \in Orderings(self_nodes) :
                                 method_vars' = method_vars \o
                                     [i \in 1..Cardinality(self_nodes) |->
                                         SelfAssignNode(order[i].attr, node)]
                           /\ UNCHANGED <<pc, exc, class_vars, init_vars>>

\* visit_Assign, visit_AnnAssign and visit_AugAssign: the visitor meets the
\* statement `node` and hands it to visit_assign.
visit_assign(node) ==
    /\ pc = "visit"
    /\ next_line' = next_line + 1
    /\ last' = [op |-> "visit_assign", node |-> node]
    /\ UNCHANGED <<tree, context, n_contained_classdef, yielded, class_seen>>
    /\ store_assign(node)

\* `a in visitor.init_vars`: a SelfAssignNode, a tuple of five fields, is
\* compared with each string of the set, and a tuple equals no string.
InStrSet(a, strs) == \E s \in strs : FALSE

\* The attributes and methods the class SelfAssignNode defines.
SelfAssignNodeAttrs ==
    {"attr", "lineno", "col_offset", "end_lineno", "end_col_offset", "from_node"}

\* The loop of run() from method_vars[i] on, `out` being what it has yielded.
\* a.as_fake_class_var() names a method SelfAssignNode does not have, and
\* so does node.spec in CLA001.
RECURSIVE run_loop(_, _)
run_loop(i, out) ==
    IF i > Len(method_vars) THEN [exc |-> "none", out |-> out]
    ELSE LET a == method_vars[i]
         IN  IF InStrSet(a, init_vars) THEN run_loop(i + 1, out)
             ELSE IF "as_fake_class_var" \notin SelfAssignNodeAttrs
             THEN [exc |-> "AttributeError", out |-> out]
             ELSE [exc |-> "AttributeError", out |-> out]

\* run() once visitor.visit(tree) has returned.
run_report ==
    /\ pc = "visit"
    /\ context = <<>>
    /\ LET r == run_loop(1, <<>>)
       IN  /\ yielded' = r.out
           /\ exc' = r.exc
           /\ pc' = IF r.exc = "none" THEN "done" ELSE "raised"
    /\ last' = [op |-> "run_report"]
    /\ UNCHANGED <<tree, context, n_contained_classdef, class_vars, init_vars,
                   method_vars, next_line, class_seen>>

\* The tree has at most MaxNodes nodes with a handler.
Next ==
    \/ run_begin
    \/ next_line <= MaxNodes /\ switch_context(ClassDef(next_line))
    \/ next_line <= MaxNodes /\ \E node \in FuncNodes(next_line) : switch_context(node)
    \/ switch_context_return
    \/ /\ next_line <= MaxNodes
       /\ \E node \in AssignNodes(next_line, 4 * Len(context)) : visit_assign(node)
    \/ run_report

Spec == Init /\ [][Next]_vars

\* ------------------------------------------------ trees of several classes
\* The same walk over longer trees built from fewer kinds of node: classes,
\* the methods __init__(self) and beans(self), and the statements a = ...,
\* self.a = ... and self.b = ....
ClassMethodNodes(line) ==
    {FunctionDef(nm, <<"self">>, <<>>, line) : nm \in {"__init__", "beans"}}
ClassAssignNodes(line, col) ==
    {Assign(<<t>>, line, col) :
        t \in {Name("a"), Attribute(Name("self"), "a"), Attribute(Name("self"), "b")}}

NextClasses ==
    \/ run_begin
    \/ next_line <= MaxClassNodes /\ switch_context(ClassDef(next_line))
    \/ /\ next_line <= MaxClassNodes
       /\ \E node \in ClassMethodNodes(next_line) : switch_context(node)
    \/ switch_context_return
    \/ /\ next_line <= MaxClassNodes
       /\ \E node \in ClassAssignNodes(next_line, 4 * Len(context)) : visit_assign(node)
    \/ run_report

SpecClasses == Init /\ [][NextClasses]_vars

\* ------------------------------------------------- the resolver on its own
\* resolve_assign and resolve_attribute are pure: here each is called once on
\* a statement drawn from ResolverNodes, as the unit tests call them.
InitResolve ==
    /\ tree = "Module"
    /\ pc = "resolve"
    /\ exc = "none"
    /\ context = <<>>
    /\ n_contained_classdef = 0
    /\ class_vars = {}
    /\ init_vars = {}
    /\ method_vars = <<>>
    /\ yielded = <<>>
    /\ next_line = 1
    /\ class_seen = FALSE
    /\ \E node \in ResolverNodes : last = [op |-> "input", node |-> node]

call_resolve_assign ==
    /\ pc = "resolve"
    /\ last.op = "input"
    /\ last' = [op |-> "resolve_assign", node |-> last.node,
                result |-> resolve_assign(last.node)]
    /\ UNCHANGED <<tree, pc, exc, context, n_contained_classdef, class_vars, init_vars,
                   method_vars, yielded, next_line, class_seen>>

\* resolve_attribute(tree.body[0].targets[0]) for an attribute or subscript.
call_resolve_attribute ==
    /\ pc = "resolve"
    /\ last.op = "input"
    /\ last.node.type = "Assign"
    /\ Len(last.node.targets) = 1
    /\ last.node.targets[1].type \in {"Attribute", "Subscript"}
    /\ last' = [op |-> "resolve_attribute", node |-> last.node,
                result |-> resolve_attribute(last.node.targets[1])]
    /\ UNCHANGED <<tree, pc, exc, context, n_contained_classdef, class_vars, init_vars,
                   method_vars, yielded, next_line, class_seen>>

NextResolve == call_resolve_assign \/ call_resolve_attribute

SpecResolve == InitResolve /\ [][NextResolve]_vars

\* ------------------------------------------------------------ the claims
\* What the claims say, stated apart from the code above.

\* The finding run() reports for a method_vars entry.
ExpectedFinding(a) == <<a.lineno, a.col_offset, "CLA001", a.attr>>

\* The findings for the method_vars entries that no bucket declares, in order.
ExpectedFindings ==
    LET undeclared(a) == a.attr \notin (init_vars \cup class_vars)
        kept == SelectSeq(method_vars, undeclared)
    IN  [i \in 1..Len(kept) |-> ExpectedFinding(kept[i])]

\* A class definition is on the scope stack.
ClassOnStack(ctx) == \E i \in 1..Len(ctx) : ctx[i].type = "ClassDef"

\* Index of the nearest enclosing class frame.
LastClass(ctx) ==
    CHOOSE i \in 1..Len(ctx) :
        /\ ctx[i].type = "ClassDef"
        /\ \A j \in (i + 1)..Len(ctx) : ctx[j].type # "ClassDef"

\* The statement is directly in a class body.
InClassBody(ctx) == ClassOnStack(ctx) /\ LastClass(ctx) = Len(ctx)

\* The function frame immediately above the nearest enclosing class frame.
EnclosingMethod(ctx) == ctx[LastClass(ctx) + 1]

\* Number of function frames above the nearest enclosing class frame.
FunctionDepth(ctx) == Len(ctx) - LastClass(ctx)

IsConstructor(frame) == frame.name = "__init__" \/ frame.name = "__post_init__"

IsPrefix(p, q) == Len(p) <= Len(q) /\ SubSeq(q, 1, Len(p)) = p

\* The single targets of a statement, destructuring and stars opened up.
RECURSIVE Leaves(_)
Leaves(e) ==
    IF e.type \in {"Tuple", "List"}
    THEN UNION {Leaves(e.elts[i]) : i \in 1..Len(e.elts)}
    ELSE IF e.type = "Starred" THEN Leaves(e.value)
    ELSE {e}
TargetsOf(node) ==
    IF node.type = "Assign"
    THEN UNION {Leaves(node.targets[i]) : i \in 1..Len(node.targets)}
    ELSE Leaves(node.target)

\* The expression a chain of attribute and subscript accesses starts from.
RECURSIVE RootOf(_)
RootOf(e) == IF e.type \in {"Attribute", "Subscript"} THEN RootOf(e.value) ELSE e

\* The code of a decorator that is the bare name classmethod or staticmethod.
BareSpecial(node) ==
    \E i \in 1..Len(node.decorator_list) :
        node.decorator_list[i] \in {Name("classmethod"), Name("staticmethod")}

\* C1: after run(), the findings are exactly the method_attributes entries
\* whose attribute is in neither constructor_attributes nor
\* class_level_attributes, in order and with multiplicity.
C1_FindingsAreUndeclaredMethodAttributes ==
    last.op = "run_report" => (pc = "done" /\ yielded = ExpectedFindings)

\* C2: a function definition met inside a class is pruned (no frame pushed, no
\* bucket changed) if and only if one of its decorators is the bare name
\* classmethod or staticmethod; otherwise it is pushed like a plain method.
C2_PrunedIffBareSpecialDecorator ==
    [][(last'.op = "switch_context" /\ last'.node.type = "FunctionDef"
            /\ ClassOnStack(context)) =>
          IF BareSpecial(last'.node)
          THEN UNCHANGED <<context, n_contained_classdef, buckets>>
          ELSE /\ context' = Append(context, Frame(last'.node))
               /\ UNCHANGED <<n_contained_classdef, buckets>>]_vars

\* A classmethod met in a class body has been pruned: the class frame is
\* still the innermost one.
C2_Witness ==
    /\ last.op = "switch_context"
    /\ last.node.type = "FunctionDef"
    /\ last.node.decorator_list = <<Name("property"), Name("staticmethod")>>
    /\ context = <<Frame(ClassDef(1))>>
    /\ n_contained_classdef = 1

\* C3: an assignment statement visited inside a class changes at most one
\* bucket, chosen by context: class_level_attributes (by leftmost name) in a
\* class body, constructor_attributes in __init__ / __post_init__,
\* method_attributes (appended) in any other method.
C3_OneBucketByContext ==
    [][(last'.op = "visit_assign" /\ ClassOnStack(context)) =>
          IF InClassBody(context)
          THEN /\ UNCHANGED <<init_vars, method_vars>>
               /\ class_vars \subseteq class_vars'
               /\ class_vars' \ class_vars \subseteq
                      {RootOf(t).id : t \in {u \in TargetsOf(last'.node) :
                                                RootOf(u).type = "Name"}}
          ELSE IF IsConstructor(EnclosingMethod(context))
          THEN /\ UNCHANGED <<class_vars, method_vars>>
               /\ init_vars \subseteq init_vars'
          ELSE /\ UNCHANGED <<class_vars, init_vars>>
               /\ IsPrefix(method_vars, method_vars')]_vars

\* A class-body assignment and a __post_init__ assignment have each filled
\* their own bucket and no other.
C3_Witness ==
    /\ last.op = "visit_assign"
    /\ Len(context) = 2
    /\ context[2].name = "__post_init__"
    /\ class_vars = {"a"}
    /\ init_vars = {"b"}
    /\ method_vars = <<>>

\* The descriptors visit_assign gets for a statement, none when it drops it.
Descriptors(node) ==
    LET r == resolve_assign(node) IN IF r.exc = "none" THEN r.val ELSE {}

\* What a step has appended to method_vars.
Appended(old, new) == SubSeq(new, Len(old) + 1, Len(new))
AttrsOf(seq) == {seq[i].attr : i \in 1..Len(seq)}

\* A chain has an attribute step.
RECURSIVE HasAttrStep(_)
HasAttrStep(e) ==
    IF e.type = "Attribute" THEN TRUE
    ELSE IF e.type = "Subscript" THEN HasAttrStep(e.value)
    ELSE FALSE

\* The attribute of the attribute step closest to the base; "" without one.
RECURSIVE ClosestAttr(_)
ClosestAttr(e) ==
    IF e.type = "Attribute"
    THEN IF HasAttrStep(e.value) THEN ClosestAttr(e.value) ELSE e.attr
    ELSE IF e.type = "Subscript" THEN ClosestAttr(e.value)
    ELSE ""

\* The descriptor of a target whose base is a plain name.
ExpectedDescriptor(t) == AssignSpec(RootOf(t).id, ClosestAttr(t))

\* C4: an assignment inside functions nested in a method is filed by the
\* function frame immediately above the nearest class frame: that frame's
\* first parameter is the receiver and its name decides between
\* constructor_attributes and method_attributes.
C4_NestedAssignUsesOuterMethod ==
    [][(/\ last'.op = "visit_assign"
        /\ ClassOnStack(context)
        /\ FunctionDepth(context) >= 2
        /\ Len(EnclosingMethod(context).args) > 0
        /\ pc' = "visit") =>
          LET outer == EnclosingMethod(context)
              attrs == {d.attr : d \in {e \in Descriptors(last'.node) :
                                          e.base = outer.args[1]}}
          IN  IF IsConstructor(outer)
              THEN /\ init_vars' = init_vars \cup attrs
                   /\ UNCHANGED <<class_vars, method_vars>>
              ELSE /\ IsPrefix(method_vars, method_vars')
                   /\ Len(method_vars') = Len(method_vars) + Cardinality(attrs)
                   /\ AttrsOf(Appended(method_vars, method_vars')) = attrs
                   /\ UNCHANGED <<class_vars, init_vars>>]_vars

\* self.a = 1 in a closure beans(slef) inside __init__(self) has gone to
\* constructor_attributes.
C4_Witness ==
    /\ last.op = "visit_assign"
    /\ last.node.type = "Assign"
    /\ last.node.targets = <<Attribute(Name("self"), "a")>>
    /\ Len(context) = 3
    /\ context[1].type = "ClassDef"
    /\ context[2] = Frame(FunctionDef("__init__", <<"self">>, <<>>, 2))
    /\ context[3] = Frame(FunctionDef("beans", <<"slef">>, <<>>, 3))
    /\ init_vars = {"a"}
    /\ method_vars = <<>>

\* C5: inside a method a descriptor is filed if and only if its receiver is
\* the method's own first parameter; a statement without such a descriptor
\* changes no bucket.
C5_OnlyReceiverDescriptorsFiled ==
    [][(/\ last'.op = "visit_assign"
        /\ ClassOnStack(context)
        /\ ~InClassBody(context)
        /\ Len(EnclosingMethod(context).args) > 0
        /\ pc' = "visit") =>
          LET receiver == EnclosingMethod(context).args[1]
              mine == {d \in Descriptors(last'.node) : d.base = receiver}
              filed == (init_vars' \ init_vars)
                           \cup AttrsOf(Appended(method_vars, method_vars'))
          IN  /\ class_vars' = class_vars
              /\ filed \subseteq {d.attr : d \in mine}
              /\ \A d \in mine :
                    d.attr \in init_vars'
                        \/ d.attr \in AttrsOf(Appended(method_vars, method_vars'))
              /\ (mine = {} => UNCHANGED buckets)]_vars

\* slef.a = 5 in beans(slef) has been filed under a.
C5_Witness ==
    /\ last.op = "visit_assign"
    /\ last.node.type = "Assign"
    /\ last.node.targets = <<Attribute(Name("slef"), "a")>>
    /\ context = <<Frame(ClassDef(1)), Frame(FunctionDef("beans", <<"slef">>, <<>>, 2))>>
    /\ class_vars = {}
    /\ init_vars = {}
    /\ AttrsOf(method_vars) = {"a"}

\* C6: when a statement has several targets and one is an attribute of a
\* function call, resolving it yields no descriptor for that target and the
\* descriptor of every other target.
C6_OtherTargetsSurviveCallTarget ==
    (/\ last.op = "resolve_assign"
     /\ last.node.type = "Assign"
     /\ Cardinality(TargetsOf(last.node)) >= 2
     /\ \E t \in TargetsOf(last.node) : RootOf(t).type = "Call"
     /\ \E t \in TargetsOf(last.node) : RootOf(t).type = "Name"
     /\ \A t \in TargetsOf(last.node) :
            \/ RootOf(t).type = "Name"
            \/ RootOf(t).type = "Call" /\ t.type = "Attribute") =>
        /\ last.result.exc = "none"
        /\ last.result.val =
              {ExpectedDescriptor(t) :
                  t \in {u \in TargetsOf(last.node) : RootOf(u).type = "Name"}}

\* C7: an assignment inside a class with a target whose base is a function
\* call, reached through any attribute and subscript accesses, never aborts
\* the traversal.
C7_CallBasedTargetNeverAborts ==
    (/\ last.op = "visit_assign"
     /\ ClassOnStack(context)
     /\ \E t \in TargetsOf(last.node) : RootOf(t).type = "Call"
     /\ \A t \in TargetsOf(last.node) : RootOf(t).type \in {"Name", "Call"}) =>
        (pc = "visit" /\ exc = "none")

\* C8: a plain name followed by attribute and subscript steps, at least one
\* of them an attribute step, resolves to (name, attribute of the attribute
\* step closest to the name), however many steps follow.
C8_ChainResolvesToClosestAttribute ==
    (/\ last.op \in {"resolve_assign", "resolve_attribute"}
     /\ last.node.type = "Assign"
     /\ Len(last.node.targets) = 1
     /\ last.node.targets[1].type \in {"Attribute", "Subscript"}
     /\ RootOf(last.node.targets[1]).type = "Name"
     /\ HasAttrStep(last.node.targets[1])) =>
        last.result = Ok({ExpectedDescriptor(last.node.targets[1])})

\* self.a[...].b has resolved to (self, a).
C8_Witness ==
    /\ last.op = "resolve_attribute"
    /\ last.node.targets =
          <<Attribute(Subscript(Attribute(Name("self"), "a")), "b")>>
    /\ last.result = Ok({AssignSpec("self", "a")})

\* C9: while the tree has shown no class definition, the three buckets are
\* empty, nothing has been reported and nothing has been raised.
C9_NoClassNoBucketsNoFindings ==
    ~class_seen =>
        /\ class_vars = {}
        /\ init_vars = {}
        /\ method_vars = <<>>
        /\ yielded = <<>>
        /\ pc # "raised"

\* self.a = ... has been visited in beans(self) outside any class.
C9_Witness ==
    /\ ~class_seen
    /\ last.op = "visit_assign"
    /\ last.node.type = "Assign"
    /\ last.node.targets = <<Attribute(Name("self"), "a")>>
    /\ context = <<Frame(FunctionDef("beans", <<"self">>, <<>>, 1))>>
    /\ buckets = <<{}, {}, <<>>>>

\* C10: the empty string is never in constructor_attributes and never the
\* attribute of a method_attributes entry.
C10_EmptyAttributeNeverFiled ==
    /\ "" \notin init_vars
    /\ \A i \in 1..Len(method_vars) : method_vars[i].attr # ""

\* The simple assignment to the target of an annotated or augmented one, at
\* the same place in the source.
AsSimple(node) == [type |-> "Assign", targets |-> <<node.target>>, loc |-> node.loc]

\* C11: an annotated or augmented assignment changes the buckets, and ends the
\* walk or not, exactly as the simple assignment to the same target would in
\* the same scope.
C11_StatementKindsFiledAlike ==
    [][(last'.op = "visit_assign" /\ last'.node.type \in {"AnnAssign", "AugAssign"}) =>
          store_assign(AsSimple(last'.node))]_vars

\* self.a += 1 in beans(self) has appended an entry for a, and a: int in the
\* class body before it has put a into class_level_attributes.
C11_Witness ==
    /\ last.op = "visit_assign"
    /\ last.node.type = "AugAssign"
    /\ last.node.target = Attribute(Name("self"), "a")
    /\ context = <<Frame(ClassDef(1)), Frame(FunctionDef("beans", <<"self">>, <<>>, 3))>>
    /\ class_vars = {"a"}
    /\ init_vars = {}
    /\ method_vars = <<SelfAssignNode("a", last.node)>>

\* Number of class-definition frames on the scope stack.
ClassFrames(ctx) == Cardinality({i \in 1..Len(ctx) : ctx[i].type = "ClassDef"})

\* C12: when an assignment statement or a definition node is visited, and
\* when the handler is done with it, the class-depth counter is the number of
\* class frames on the scope stack; entering a pruned definition changes
\* neither stack nor counter; when the walk has completed the stack is empty
\* and the counter is zero.
C12_CounterIsClassFramesOnStack ==
    [][/\ (last'.op \in {"visit_assign", "switch_context", "switch_context_return"} =>
             /\ n_contained_classdef = ClassFrames(context)
             /\ n_contained_classdef' = ClassFrames(context'))
       /\ ((/\ last'.op = "switch_context"
            /\ last'.node.type = "FunctionDef"
            /\ ClassOnStack(context)
            /\ BareSpecial(last'.node)) =>
             UNCHANGED <<context, n_contained_classdef>>)
       /\ (last'.op = "run_report" =>
             /\ context = <<>>
             /\ n_contained_classdef = 0
             /\ UNCHANGED <<context, n_contained_classdef>>)]_vars

\* A classmethod has been pruned in a class nested in a method of a class:
\* two class frames and one function frame are on the stack.
C12_Witness ==
    /\ last.op = "switch_context"
    /\ last.node.type = "FunctionDef"
    /\ last.node.decorator_list = <<Call(Name("lru_cache")), Name("classmethod")>>
    /\ Len(context) = 3
    /\ context[1].type = "ClassDef"
    /\ context[2].type = "FunctionDef"
    /\ context[3].type = "ClassDef"
    /\ n_contained_classdef = 2

\* C13: when every attribute assigned in a method has been declared somewhere
\* in the walk, in the body or a constructor of any class of the tree, run()
\* completes and reports nothing.
C13_DeclaredInAnyClassSuppresses ==
    (/\ last.op = "run_report"
     /\ method_vars # <<>>
     /\ AttrsOf(method_vars) \subseteq class_vars \cup init_vars) =>
        (pc = "done" /\ exc = "none" /\ yielded = <<>>)

\* The statement about to be visited is in a method without a positional
\* parameter, or in a function nested in it, of the nearest enclosing class.
InNoParameterMethod(ctx) ==
    /\ ClassOnStack(ctx)
    /\ ~InClassBody(ctx)
    /\ EnclosingMethod(ctx).args = <<>>

\* Entering and leaving definition nodes never ends the walk.
DefinitionsNeverFail ==
    last'.op \in {"switch_context", "switch_context_return"} => UNCHANGED <<pc, exc>>

====
